---- MODULE Spec2Model ----
(***************************************************************************)
(* A model of the nutrify backend (src/app.py): the users and scans tables *)
(* of nutrify.db, the per-client Flask session, the retry wrapper around   *)
(* the Gemini call, and the HTTP handlers.                                 *)
(*                                                                         *)
(* Every handler issues at most one writing SQL statement, and reads the   *)
(* session from the cookie of its own request, so a handler is one atomic  *)
(* action.  The retry wrapper is modelled twice from the same three step   *)
(* operators: step by step (SpecRetry) and, inside a handler, run to its   *)
(* end over a script of remote outcomes (GwRun).                           *)
(***************************************************************************)
EXTENDS Integers, Sequences, FiniteSets, TLC

VARIABLES
    users,      \* the users table, in rowid order
    scans,      \* the scans table, in rowid order
    session,    \* session['user_id'] of each client's cookie (NoUser: absent)
    clock,      \* CURRENT_TIMESTAMP of the database, in whole seconds
    resp,       \* the response to the request handled last
    prev,       \* per client: how its own latest request ended (login, signup)
    gw,         \* one invocation of generate_with_retry
    uploads,    \* the files under static/uploads
    extracted   \* what the successful analyze-food requests returned so far

vars == <<users, scans, session, clock, resp, prev, gw, uploads, extracted>>

----------------------------------------------------------------------------
(* Values *)

\* None / SQL NULL / an absent JSON field, for a user id
NoUser == 0
\* None / SQL NULL / an absent JSON field, for a text value
Null == "NULL"

Clients == {"c1", "c2"}
Emails == {"ada@x.ng", "bola@x.ng"}
Passwords == {"pw1", "pw2"}
Salts == {"s1"}

\* app.py:95-96, 109
max_retries == 3
base_delay == 2
RandMax == 1000
\* app.py:378
HistoryLimit == 20

\* the jitter draws of random.randint(0, 1000) that the model enumerates
JitterDraws == {0, 500, RandMax}

\* bounds of the model
MaxScans == 3
MaxClock == 1
MaxLongScans == 21
MaxRouteScans == 2

----------------------------------------------------------------------------
(* werkzeug.security: a salted hash, compared by re-hashing with the salt *)

Digest(salt, password) == <<salt, password>>

generate_password_hash(password, salt) ==
    [salt |-> salt, digest |-> Digest(salt, password)]

check_password_hash(pwhash, password) ==
    pwhash.digest = Digest(pwhash.salt, password)

----------------------------------------------------------------------------
(* generate_with_retry, app.py:91-114 *)

\* the outcome kinds of client.models.generate_content
RemoteKinds == {"ok", "ResourceExhausted", "OtherError"}

GwIdle ==
    [pc |-> "idle", attempt |-> 0, log |-> <<>>, result |-> [kind |-> "none", call |-> 0]]

\* entering the function: attempt = 0, about to call
GwStart ==
    [pc |-> "call", attempt |-> 0, log |-> <<>>, result |-> [kind |-> "none", call |-> 0]]

GwCalls(g) == Len(SelectSeq(g.log, LAMBDA e : e.ev = "call"))
GwSleeps(g) == SelectSeq(g.log, LAMBDA e : e.ev = "sleep")

\* a backoff that grows linearly instead of doubling
SleepTimeMs_Linear(attempt, jitter) == (base_delay * (attempt + 1)) * 1000 + jitter

\* sleep_time in milliseconds, app.py:109
SleepTimeMs(attempt, jitter) == (base_delay * (2 ^ attempt)) * 1000 + jitter

\* the limit compared one too high: a fifth call after four rate-limit failures
GwAfterCall_OneMore(g, kind) ==
    LET n == GwCalls(g) + 1
        out == [kind |-> kind, call |-> n]
        logged == Append(g.log, [ev |-> "call", kind |-> kind, n |-> n, ms |-> 0])
    IN  CASE kind = "ok" ->
                [g EXCEPT !.pc = "returned", !.log = logged, !.result = out]
          [] kind = "ResourceExhausted" /\ g.attempt = max_retries + 1 ->
                [g EXCEPT !.pc = "raised", !.log = logged, !.result = out]
          [] kind = "ResourceExhausted" /\ g.attempt # max_retries + 1 ->
                [g EXCEPT !.pc = "sleep", !.log = logged]
          [] OTHER ->
                [g EXCEPT !.pc = "raised", !.log = logged, !.result = out]

\* on exhaustion the failure of the first attempt is raised, not the last one
GwAfterCall_RaiseFirst(g, kind) ==
    LET n == GwCalls(g) + 1
        out == [kind |-> kind, call |-> n]
        logged == Append(g.log, [ev |-> "call", kind |-> kind, n |-> n, ms |-> 0])
    IN  CASE kind = "ok" ->
                [g EXCEPT !.pc = "returned", !.log = logged, !.result = out]
          [] kind = "ResourceExhausted" /\ g.attempt = max_retries ->
                [g EXCEPT !.pc = "raised", !.log = logged,
                          !.result = [kind |-> kind, call |-> 1]]
          [] kind = "ResourceExhausted" /\ g.attempt # max_retries ->
                [g EXCEPT !.pc = "sleep", !.log = logged]
          [] OTHER ->
                [g EXCEPT !.pc = "raised", !.log = logged, !.result = out]

\* every failure is retried, whatever its class
GwAfterCall_RetryOther(g, kind) ==
    LET n == GwCalls(g) + 1
        out == [kind |-> kind, call |-> n]
        logged == Append(g.log, [ev |-> "call", kind |-> kind, n |-> n, ms |-> 0])
    IN  CASE kind = "ok" ->
                [g EXCEPT !.pc = "returned", !.log = logged, !.result = out]
          [] kind # "ok" /\ g.attempt = max_retries ->
                [g EXCEPT !.pc = "raised", !.log = logged, !.result = out]
          [] OTHER ->
                [g EXCEPT !.pc = "sleep", !.log = logged]

\* one pass through the try block: the remote call ends with kind
GwAfterCall(g, kind) ==
    LET n == GwCalls(g) + 1
        out == [kind |-> kind, call |-> n]
        logged == Append(g.log, [ev |-> "call", kind |-> kind, n |-> n, ms |-> 0])
    IN  CASE kind = "ok" ->
                [g EXCEPT !.pc = "returned", !.log = logged, !.result = out]
          [] kind = "ResourceExhausted" /\ g.attempt = max_retries ->
                [g EXCEPT !.pc = "raised", !.log = logged, !.result = out]
          [] kind = "ResourceExhausted" /\ g.attempt # max_retries ->
                [g EXCEPT !.pc = "sleep", !.log = logged]
          [] OTHER ->
                [g EXCEPT !.pc = "raised", !.log = logged, !.result = out]

\* time.sleep(sleep_time), then the next iteration of the for loop
GwAfterSleep(g, jitter) ==
    [g EXCEPT !.pc = "call",
              !.attempt = g.attempt + 1,
              !.log = Append(g.log, [ev |-> "sleep", kind |-> "sleep",
                                     n |-> g.attempt,
                                     ms |-> SleepTimeMs(g.attempt, jitter)])]

GwDone(g) == g.pc \in {"returned", "raised"}

\* the whole function over a script of remote outcomes and jitter draws
RECURSIVE GwRun(_, _, _)
GwRun(g, kinds, jitters) ==
    IF GwDone(g) \/ g.pc = "idle" THEN g
    ELSE IF g.pc = "call"
         THEN IF kinds = <<>> THEN g
              ELSE GwRun(GwAfterCall(g, Head(kinds)), Tail(kinds), jitters)
         ELSE IF jitters = <<>> THEN g
              ELSE GwRun(GwAfterSleep(g, Head(jitters)), kinds, Tail(jitters))

(* the wrapper, step by step *)

GwInvoke ==
    /\ gw.pc \in {"idle", "returned", "raised"}
    /\ gw' = GwStart
    /\ UNCHANGED <<users, scans, session, clock, resp, prev, uploads, extracted>>

GwCall ==
    /\ gw.pc = "call"
    /\ \E kind \in RemoteKinds : gw' = GwAfterCall(gw, kind)
    /\ UNCHANGED <<users, scans, session, clock, resp, prev, uploads, extracted>>

GwSleep ==
    /\ gw.pc = "sleep"
    /\ \E jitter \in JitterDraws : gw' = GwAfterSleep(gw, jitter)
    /\ UNCHANGED <<users, scans, session, clock, resp, prev, uploads, extracted>>

NextRetry == GwInvoke \/ GwCall \/ GwSleep

----------------------------------------------------------------------------
(* JSON: values, their texts (json.dumps) and the reading of a text          *)
(* (json.loads).  A value is an array of strings or an object given by its   *)
(* keys and values in order.                                                 *)

JArray(items) == [type |-> "array", items |-> items]
JObject(items) == [type |-> "object", items |-> items]

Rice == JArray(<<"rice", "beans">>)
NoIngredients == JArray(<<>>)
GoodMeal == JObject(<<"overall_health_status", "good", "health_score", "80">>)
BadMeal == JObject(<<"overall_health_status", "bad", "health_score", "20">>)

RiceText == "[\"rice\", \"beans\"]"
EmptyText == "[]"
GoodMealText == "{\"overall_health_status\": \"good\", \"health_score\": 80}"
BadMealText == "{\"overall_health_status\": \"bad\", \"health_score\": 20}"

JsonTexts == {RiceText, EmptyText, GoodMealText, BadMealText}

json_dumps(v) ==
    CASE v = Rice -> RiceText
      [] v = NoIngredients -> EmptyText
      [] v = GoodMeal -> GoodMealText
      [] v = BadMeal -> BadMealText

json_value(text) ==
    CASE text = RiceText -> Rice
      [] text = EmptyText -> NoIngredients
      [] text = GoodMealText -> GoodMeal
      [] text = BadMealText -> BadMeal

(* A reply of the model is a sequence of tokens: a fence, a line break, a    *)
(* blank, a word, or the text of one JSON value.                             *)

\* the three backquotes that open and close a fenced block
Fence == "<fence>"
NL == "\n"
SP == " "
Whitespace == {NL, SP}

RECURSIVE LStrip(_)
LStrip(t) == IF t # <<>> /\ Head(t) \in Whitespace THEN LStrip(Tail(t)) ELSE t

RECURSIVE RStrip(_)
RStrip(t) ==
    IF t # <<>> /\ t[Len(t)] \in Whitespace THEN RStrip(SubSeq(t, 1, Len(t) - 1)) ELSE t

\* str.strip()
Strip(t) == RStrip(LStrip(t))

Positions(t, tok) == {i \in 1..Len(t) : t[i] = tok}
Min(S) == CHOOSE x \in S : \A y \in S : x <= y
Max(S) == CHOOSE x \in S : \A y \in S : x >= y

\* json.loads(text): blanks around exactly one JSON value
json_loads(t) ==
    LET core == Strip(t)
    IN  IF Len(core) = 1 /\ core[1] \in JsonTexts
        THEN [err |-> "", value |-> json_value(core[1])]
        ELSE [err |-> "JSONDecodeError", value |-> NoIngredients]

\* a parse that looks for the fence before the blanks are stripped
ParseReply_NoStrip(reply) ==
    LET text == reply
    IN  IF text # <<>> /\ text[1] = Fence
        THEN IF Positions(text, NL) = {}
             THEN [err |-> "IndexError", value |-> NoIngredients]
             ELSE LET rest == SubSeq(text, Min(Positions(text, NL)) + 1, Len(text))
                      body == IF Positions(rest, Fence) = {} THEN rest
                              ELSE SubSeq(rest, 1, Max(Positions(rest, Fence)) - 1)
                  IN  json_loads(body)
        ELSE json_loads(text)

\* app.py:268-274 and 349-355: strip, drop the first line of the fenced block and
\* what follows its last fence, then json.loads
ParseReply(reply) ==
    LET text == Strip(reply)
    IN  IF text # <<>> /\ text[1] = Fence
        THEN IF Positions(text, NL) = {}
             THEN [err |-> "IndexError", value |-> NoIngredients]
             ELSE LET rest == SubSeq(text, Min(Positions(text, NL)) + 1, Len(text))
                      body == IF Positions(rest, Fence) = {} THEN rest
                              ELSE SubSeq(rest, 1, Max(Positions(rest, Fence)) - 1)
                  IN  json_loads(body)
        ELSE json_loads(text)

----------------------------------------------------------------------------
(* The tables *)

UserByEmail(email) == {i \in 1..Len(users) : users[i].email = email}
UserById(id) == {i \in 1..Len(users) : users[i].id = id}

ProfileOf(u) ==
    [email |-> u.email, full_name |-> u.full_name, age |-> u.age,
     height |-> u.height, weight |-> u.weight, gender |-> u.gender]

\* the response, with the client that asked, the identity its cookie held
\* when it asked, and the credentials it sent (Null where the route has none)
Reply(c, route, status, email, password, body) ==
    [client |-> c, route |-> route, status |-> status, identity |-> session[c],
     email |-> email, password |-> password, body |-> body]

Response(c, route, status, body) == Reply(c, route, status, Null, Null, body)

\* prev[c] after a request of c: how a login or a signup ended (login_ok,
\* wrong_password, unknown_email, signup_ok; other for any other request), the
\* email of a successful one, and the identity the session held before a
\* failed login
Other == [tag |-> "other", email |-> Null, before |-> NoUser]
After(c, outcome) == [prev EXCEPT ![c] = outcome]

Error(msg) == [error |-> msg]

----------------------------------------------------------------------------
(* Auth routes *)

\* a users table without the UNIQUE constraint on email
signup_NoUnique(c, email, password, full_name, salt) ==
    IF email \in {Null, ""} \/ password \in {Null, ""}
    THEN /\ resp' = Reply(c, "signup", 400, email, password, Error("Email and password required"))
         /\ prev' = After(c, Other)
         /\ UNCHANGED <<users, scans, session, clock, gw, uploads, extracted>>
    ELSE LET user_id == Len(users) + 1
         IN  /\ users' = Append(users,
                    [id |-> user_id, email |-> email,
                     password_hash |-> generate_password_hash(password, salt),
                     full_name |-> full_name, age |-> Null, height |-> Null,
                     weight |-> Null, gender |-> Null])
             /\ session' = [session EXCEPT ![c] = user_id]
             /\ resp' = Reply(c, "signup", 200, email, password,
                    [success |-> TRUE, email |-> email, full_name |-> full_name])
             /\ prev' = After(c, [tag |-> "signup_ok", email |-> email, before |-> NoUser])
             /\ UNCHANGED <<scans, clock, gw, uploads, extracted>>

\* a signup that stores the user and leaves the session as it was
signup_NoSession(c, email, password, full_name, salt) ==
    IF email \in {Null, ""} \/ password \in {Null, ""}
    THEN /\ resp' = Reply(c, "signup", 400, email, password, Error("Email and password required"))
         /\ prev' = After(c, Other)
         /\ UNCHANGED <<users, scans, session, clock, gw, uploads, extracted>>
    ELSE IF UserByEmail(email) # {}
    THEN /\ resp' = Reply(c, "signup", 400, email, password, Error("Email already exists"))
         /\ prev' = After(c, Other)
         /\ UNCHANGED <<users, scans, session, clock, gw, uploads, extracted>>
    ELSE LET user_id == Len(users) + 1
         IN  /\ users' = Append(users,
                    [id |-> user_id, email |-> email,
                     password_hash |-> generate_password_hash(password, salt),
                     full_name |-> full_name, age |-> Null, height |-> Null,
                     weight |-> Null, gender |-> Null])
             /\ resp' = Reply(c, "signup", 200, email, password,
                    [success |-> TRUE, email |-> email, full_name |-> full_name])
             /\ prev' = After(c, [tag |-> "signup_ok", email |-> email, before |-> NoUser])
             /\ UNCHANGED <<scans, session, clock, gw, uploads, extracted>>

\* app.py:121-147
signup(c, email, password, full_name, salt) ==
    IF email \in {Null, ""} \/ password \in {Null, ""}
    THEN /\ resp' = Reply(c, "signup", 400, email, password, Error("Email and password required"))
         /\ prev' = After(c, Other)
         /\ UNCHANGED <<users, scans, session, clock, gw, uploads, extracted>>
    ELSE IF UserByEmail(email) # {}
    THEN \* sqlite3.IntegrityError: UNIQUE constraint failed: users.email
         /\ resp' = Reply(c, "signup", 400, email, password, Error("Email already exists"))
         /\ prev' = After(c, Other)
         /\ UNCHANGED <<users, scans, session, clock, gw, uploads, extracted>>
    ELSE LET user_id == Len(users) + 1
         IN  /\ users' = Append(users,
                    [id |-> user_id, email |-> email,
                     password_hash |-> generate_password_hash(password, salt),
                     full_name |-> full_name, age |-> Null, height |-> Null,
                     weight |-> Null, gender |-> Null])
             /\ session' = [session EXCEPT ![c] = user_id]
             /\ resp' = Reply(c, "signup", 200, email, password,
                    [success |-> TRUE, email |-> email, full_name |-> full_name])
             /\ prev' = After(c, [tag |-> "signup_ok", email |-> email, before |-> NoUser])
             /\ UNCHANGED <<scans, clock, gw, uploads, extracted>>

\* a login that answers success without storing the identity in the session
login_NoSession(c, email, password) ==
    LET found == UserByEmail(email)
    IN  IF found # {} /\ password = Null
        THEN /\ resp' = Reply(c, "login", 500, email, password, Error("Internal Server Error"))
             /\ prev' = After(c, Other)
             /\ UNCHANGED <<users, scans, session, clock, gw, uploads, extracted>>
        ELSE IF found # {}
                /\ check_password_hash(users[CHOOSE i \in found : TRUE].password_hash,
                                       password)
        THEN LET user == users[CHOOSE i \in found : TRUE]
             IN  /\ resp' = Reply(c, "login", 200, email, password,
                        [success |-> TRUE, user |-> ProfileOf(user)])
                 /\ prev' = After(c, [tag |-> "login_ok", email |-> email, before |-> NoUser])
                 /\ UNCHANGED <<users, scans, session, clock, gw, uploads, extracted>>
        ELSE /\ resp' = Reply(c, "login", 401, email, password, Error("Invalid credentials"))
             /\ prev' = After(c, [tag |-> IF found # {} THEN "wrong_password" ELSE "unknown_email",
                                  email |-> Null, before |-> session[c]])
             /\ UNCHANGED <<users, scans, session, clock, gw, uploads, extracted>>

\* a login that clears the session when the credentials are wrong
login_ClearsOnFail(c, email, password) ==
    LET found == UserByEmail(email)
    IN  IF found # {} /\ password = Null
        THEN /\ resp' = Reply(c, "login", 500, email, password, Error("Internal Server Error"))
             /\ prev' = After(c, Other)
             /\ UNCHANGED <<users, scans, session, clock, gw, uploads, extracted>>
        ELSE IF found # {}
                /\ check_password_hash(users[CHOOSE i \in found : TRUE].password_hash,
                                       password)
        THEN LET user == users[CHOOSE i \in found : TRUE]
             IN  /\ session' = [session EXCEPT ![c] = user.id]
                 /\ resp' = Reply(c, "login", 200, email, password,
                        [success |-> TRUE, user |-> ProfileOf(user)])
                 /\ prev' = After(c, [tag |-> "login_ok", email |-> email, before |-> NoUser])
                 /\ UNCHANGED <<users, scans, clock, gw, uploads, extracted>>
        ELSE /\ session' = [session EXCEPT ![c] = NoUser]
             /\ resp' = Reply(c, "login", 401, email, password, Error("Invalid credentials"))
             /\ prev' = After(c, [tag |-> IF found # {} THEN "wrong_password" ELSE "unknown_email",
                                  email |-> Null, before |-> session[c]])
             /\ UNCHANGED <<users, scans, clock, gw, uploads, extracted>>

\* app.py:149-173
login(c, email, password) ==
    LET found == UserByEmail(email)
    IN  IF found # {} /\ password = Null
        THEN \* check_password_hash(hash, None) raises: an unhandled exception
             /\ resp' = Reply(c, "login", 500, email, password, Error("Internal Server Error"))
             /\ prev' = After(c, Other)
             /\ UNCHANGED <<users, scans, session, clock, gw, uploads, extracted>>
        ELSE IF found # {}
                /\ check_password_hash(users[CHOOSE i \in found : TRUE].password_hash,
                                       password)
        THEN LET user == users[CHOOSE i \in found : TRUE]
             IN  /\ session' = [session EXCEPT ![c] = user.id]
                 /\ resp' = Reply(c, "login", 200, email, password,
                        [success |-> TRUE, user |-> ProfileOf(user)])
                 /\ prev' = After(c, [tag |-> "login_ok", email |-> email, before |-> NoUser])
                 /\ UNCHANGED <<users, scans, clock, gw, uploads, extracted>>
        ELSE /\ resp' = Reply(c, "login", 401, email, password, Error("Invalid credentials"))
             /\ prev' = After(c, [tag |-> IF found # {} THEN "wrong_password" ELSE "unknown_email",
                                  email |-> Null, before |-> session[c]])
             /\ UNCHANGED <<users, scans, session, clock, gw, uploads, extracted>>

\* a logout that answers success and leaves the identity in the session
logout_KeepsSession(c) ==
    /\ resp' = Response(c, "logout", 200, [success |-> TRUE])
    /\ prev' = After(c, Other)
    /\ UNCHANGED <<users, scans, session, clock, gw, uploads, extracted>>

\* app.py:175-178
logout(c) ==
    /\ session' = [session EXCEPT ![c] = NoUser]
    /\ resp' = Response(c, "logout", 200, [success |-> TRUE])
    /\ prev' = After(c, Other)
    /\ UNCHANGED <<users, scans, clock, gw, uploads, extracted>>

\* app.py:180-201
check_auth(c) ==
    /\ resp' = IF session[c] = NoUser \/ UserById(session[c]) = {}
               THEN Response(c, "check-auth", 200, [authenticated |-> FALSE])
               ELSE Response(c, "check-auth", 200,
                        [authenticated |-> TRUE,
                         user |-> ProfileOf(users[CHOOSE i \in UserById(session[c]) : TRUE])])
    /\ prev' = After(c, Other)
    /\ UNCHANGED <<users, scans, session, clock, gw, uploads, extracted>>

\* an UPDATE with no WHERE clause: every row takes the attributes
update_profile_AllRows(c, data) ==
    IF session[c] = NoUser
    THEN /\ resp' = Response(c, "profile", 401, Error("Unauthorized"))
         /\ prev' = After(c, Other)
         /\ UNCHANGED <<users, scans, session, clock, gw, uploads, extracted>>
    ELSE /\ users' = [i \in 1..Len(users) |->
                        [users[i] EXCEPT !.full_name = data.full_name,
                                         !.age = data.age,
                                         !.height = data.height,
                                         !.weight = data.weight,
                                         !.gender = data.gender]]
         /\ resp' = Response(c, "profile", 200, [success |-> TRUE])
         /\ prev' = After(c, Other)
         /\ UNCHANGED <<scans, session, clock, gw, uploads, extracted>>

\* an UPDATE that keeps the stored value of an attribute the body lacks
update_profile_KeepsAbsent(c, data) ==
    IF session[c] = NoUser
    THEN /\ resp' = Response(c, "profile", 401, Error("Unauthorized"))
         /\ prev' = After(c, Other)
         /\ UNCHANGED <<users, scans, session, clock, gw, uploads, extracted>>
    ELSE LET Kept(new, old) == IF new = Null THEN old ELSE new
         IN  /\ users' = [i \in 1..Len(users) |->
                        IF users[i].id = session[c]
                        THEN [users[i] EXCEPT
                                 !.full_name = Kept(data.full_name, users[i].full_name),
                                 !.age = Kept(data.age, users[i].age),
                                 !.height = Kept(data.height, users[i].height),
                                 !.weight = Kept(data.weight, users[i].weight),
                                 !.gender = Kept(data.gender, users[i].gender)]
                        ELSE users[i]]
             /\ resp' = Response(c, "profile", 200, [success |-> TRUE])
             /\ prev' = After(c, Other)
             /\ UNCHANGED <<scans, session, clock, gw, uploads, extracted>>

\* app.py:203-220; data gives each attribute, Null when the body lacks it
update_profile(c, data) ==
    IF session[c] = NoUser
    THEN /\ resp' = Response(c, "profile", 401, Error("Unauthorized"))
         /\ prev' = After(c, Other)
         /\ UNCHANGED <<users, scans, session, clock, gw, uploads, extracted>>
    ELSE /\ users' = [i \in 1..Len(users) |->
                        IF users[i].id = session[c]
                        THEN [users[i] EXCEPT !.full_name = data.full_name,
                                              !.age = data.age,
                                              !.height = data.height,
                                              !.weight = data.weight,
                                              !.gender = data.gender]
                        ELSE users[i]]
         /\ resp' = Response(c, "profile", 200, [success |-> TRUE])
         /\ prev' = After(c, Other)
         /\ UNCHANGED <<scans, session, clock, gw, uploads, extracted>>

----------------------------------------------------------------------------
(* Analysis routes *)

ALLOWED_EXTENSIONS == {"png", "jpg", "jpeg", "gif"}

\* str.lower() on the extensions the model uses
Lower(ext) ==
    CASE ext = "JPG" -> "jpg"
      [] ext = "PNG" -> "png"
      [] OTHER -> ext

\* app.py:116-117; a filename is the sequence of its parts between dots
allowed_file(filename) ==
    /\ Len(filename) >= 2
    /\ Lower(filename[Len(filename)]) \in ALLOWED_EXTENSIONS

\* the model call of a handler: generate_with_retry run to its end
Generate(kinds) == GwRun(GwStart, kinds, <<0, 0, 0>>)

\* the name of a file from its parts between dots
RECURSIVE Join(_)
Join(parts) ==
    IF Len(parts) = 1 THEN parts[1] ELSE parts[1] \o "." \o Join(Tail(parts))

\* app.py:247-250 and 277: secure_filename of the name, after the time in seconds
StoredName(file) == ToString(clock) \o "_" \o Join(file.filename)
ImageUrl(file) == "/static/uploads/" \o StoredName(file)

\* app.py:232-288; save_ok: file.save wrote the file, upload_ok: client.files.upload
\* accepted it
analyze_food(c, file, save_ok, upload_ok, kinds, reply) ==
    LET valid == file.present /\ file.filename # <<"">> /\ allowed_file(file.filename)
        done == /\ valid /\ save_ok /\ upload_ok
                /\ Generate(kinds).pc = "returned"
                /\ ParseReply(reply).err = ""
    IN  /\ prev' = After(c, Other)
        /\ UNCHANGED <<users, scans, session, clock, gw>>
        /\ uploads' = IF valid /\ save_ok THEN uploads \cup {StoredName(file)} ELSE uploads
        /\ extracted' = IF done
                        THEN extracted \cup {[ingredients |-> ParseReply(reply).value,
                                              image_url |-> ImageUrl(file)]}
                        ELSE extracted
        /\ resp' =
            IF ~file.present
            THEN Response(c, "analyze-food", 400, Error("No image file provided"))
            ELSE IF file.filename = <<"">>
            THEN Response(c, "analyze-food", 400, Error("No selected file"))
            ELSE IF ~allowed_file(file.filename)
            THEN Response(c, "analyze-food", 400, Error("Invalid file type"))
            ELSE IF ~save_ok
            THEN Response(c, "analyze-food", 500, Error("OSError"))
            ELSE IF ~upload_ok
            THEN Response(c, "analyze-food", 500, Error("upload failed"))
            ELSE IF Generate(kinds).pc # "returned"
            THEN Response(c, "analyze-food", 500, Error(Generate(kinds).result.kind))
            ELSE IF ParseReply(reply).err # ""
            THEN Response(c, "analyze-food", 500, Error(ParseReply(reply).err))
            ELSE Response(c, "analyze-food", 200,
                    [success |-> TRUE, ingredients |-> ParseReply(reply).value,
                     image_url |-> ImageUrl(file)])

\* an INSERT OR REPLACE on a fixed id: the first row is written over
save_scan_Replace(user_id, ingredients, analysis, image_url, db_ok) ==
    IF db_ok
    THEN IF scans = <<>>
         THEN <<[id |-> 1, user_id |-> user_id, timestamp |-> clock,
                 ingredients |-> json_dumps(ingredients),
                 analysis_json |-> json_dumps(analysis), image_url |-> image_url]>>
         ELSE [scans EXCEPT ![1] =
                 [id |-> 1, user_id |-> user_id, timestamp |-> clock,
                  ingredients |-> json_dumps(ingredients),
                  analysis_json |-> json_dumps(analysis), image_url |-> image_url]]
    ELSE scans

\* app.py:76-86: the scans table after save_scan; a failed INSERT is printed
\* and dropped
save_scan(user_id, ingredients, analysis, image_url, db_ok) ==
    IF db_ok
    THEN Append(scans,
            [id |-> Len(scans) + 1, user_id |-> user_id, timestamp |-> clock,
             ingredients |-> json_dumps(ingredients),
             analysis_json |-> json_dumps(analysis), image_url |-> image_url])
    ELSE scans

\* the history record written once the gateway returned, before the reply is
\* parsed
analyze_health_SaveFirst(c, data, kinds, reply, db_ok, cap) ==
    LET ingredients == IF data.has_ingredients THEN data.ingredients ELSE NoIngredients
        done == /\ ingredients.items # <<>>
                /\ Generate(kinds).pc = "returned"
    IN  /\ done /\ db_ok => Len(scans) < cap
        /\ prev' = After(c, Other)
        /\ UNCHANGED <<users, session, clock, gw, uploads, extracted>>
        /\ IF ingredients.items = <<>>
           THEN /\ resp' = Response(c, "analyze-health", 400, Error("No ingredients provided"))
                /\ scans' = scans
           ELSE IF Generate(kinds).pc # "returned"
           THEN /\ resp' = Response(c, "analyze-health", 500,
                                    Error(Generate(kinds).result.kind))
                /\ scans' = scans
           ELSE IF ParseReply(reply).err # ""
           THEN /\ resp' = Response(c, "analyze-health", 500, Error(ParseReply(reply).err))
                /\ scans' = save_scan(session[c], ingredients, NoIngredients,
                                      data.image_url, db_ok)
           ELSE /\ scans' = save_scan(session[c], ingredients, ParseReply(reply).value,
                                      data.image_url, db_ok)
                /\ resp' = Response(c, "analyze-health", 200,
                                    [success |-> TRUE, analysis |-> ParseReply(reply).value])

\* a failed INSERT that is not caught in save_scan and ends the request
analyze_health_SaveRaises(c, data, kinds, reply, db_ok, cap) ==
    LET ingredients == IF data.has_ingredients THEN data.ingredients ELSE NoIngredients
        done == /\ ingredients.items # <<>>
                /\ Generate(kinds).pc = "returned"
                /\ ParseReply(reply).err = ""
    IN  /\ done /\ db_ok => Len(scans) < cap
        /\ prev' = After(c, Other)
        /\ UNCHANGED <<users, session, clock, gw, uploads, extracted>>
        /\ IF ingredients.items = <<>>
           THEN /\ resp' = Response(c, "analyze-health", 400, Error("No ingredients provided"))
                /\ scans' = scans
           ELSE IF Generate(kinds).pc # "returned"
           THEN /\ resp' = Response(c, "analyze-health", 500,
                                    Error(Generate(kinds).result.kind))
                /\ scans' = scans
           ELSE IF ParseReply(reply).err # ""
           THEN /\ resp' = Response(c, "analyze-health", 500, Error(ParseReply(reply).err))
                /\ scans' = scans
           ELSE IF ~db_ok
           THEN /\ resp' = Response(c, "analyze-health", 500, Error("OperationalError"))
                /\ scans' = scans
           ELSE /\ scans' = save_scan(session[c], ingredients, ParseReply(reply).value,
                                      data.image_url, db_ok)
                /\ resp' = Response(c, "analyze-health", 200,
                                    [success |-> TRUE, analysis |-> ParseReply(reply).value])

\* app.py:290-367
analyze_health(c, data, kinds, reply, db_ok, cap) ==
    LET ingredients == IF data.has_ingredients THEN data.ingredients ELSE NoIngredients
        done == /\ ingredients.items # <<>>
                /\ Generate(kinds).pc = "returned"
                /\ ParseReply(reply).err = ""
    IN  /\ done /\ db_ok => Len(scans) < cap
        /\ prev' = After(c, Other)
        /\ UNCHANGED <<users, session, clock, gw, uploads, extracted>>
        /\ IF ingredients.items = <<>>
           THEN /\ resp' = Response(c, "analyze-health", 400, Error("No ingredients provided"))
                /\ scans' = scans
           ELSE IF Generate(kinds).pc # "returned"
           THEN /\ resp' = Response(c, "analyze-health", 500,
                                    Error(Generate(kinds).result.kind))
                /\ scans' = scans
           ELSE IF ParseReply(reply).err # ""
           THEN /\ resp' = Response(c, "analyze-health", 500, Error(ParseReply(reply).err))
                /\ scans' = scans
           ELSE /\ scans' = save_scan(session[c], ingredients, ParseReply(reply).value,
                                      data.image_url, db_ok)
                /\ resp' = Response(c, "analyze-health", 200,
                                    [success |-> TRUE, analysis |-> ParseReply(reply).value])

\* the row that ORDER BY timestamp DESC puts first among the rows left;
\* SQL leaves the order of rows with equal timestamps open: tie is by
\* ascending rowid (what SQLite's sorter gives) or by descending rowid
FirstRow(left, tie) ==
    LET newest == {i \in left : \A j \in left : scans[j].timestamp <= scans[i].timestamp}
    IN  IF tie = "rowid_asc" THEN Min(newest) ELSE Max(newest)

RECURSIVE OrderByTimestampDesc(_, _)
OrderByTimestampDesc(left, tie) ==
    IF left = {} THEN <<>>
    ELSE <<FirstRow(left, tie)>> \o OrderByTimestampDesc(left \ {FirstRow(left, tie)}, tie)

\* WHERE user_id = ?: NULL equals nothing, so an ownerless row never matches
OwnedBy(user_id) ==
    {i \in 1..Len(scans) : scans[i].user_id # NoUser /\ scans[i].user_id = user_id}

\* a query that forgets the WHERE clause
SelectScans_AllRows(user_id, tie) ==
    LET sorted == OrderByTimestampDesc(1..Len(scans), tie)
    IN  SubSeq(sorted, 1, IF Len(sorted) < HistoryLimit THEN Len(sorted) ELSE HistoryLimit)

\* app.py:378: SELECT * FROM scans WHERE user_id = ? ORDER BY timestamp DESC LIMIT 20
SelectScans(user_id, tie) ==
    LET sorted == OrderByTimestampDesc(OwnedBy(user_id), tie)
    IN  SubSeq(sorted, 1, IF Len(sorted) < HistoryLimit THEN Len(sorted) ELSE HistoryLimit)

HistoryEntry(row) ==
    [id |-> row.id, timestamp |-> row.timestamp,
     ingredients |-> json_value(row.ingredients),
     analysis |-> json_value(row.analysis_json),
     image_url |-> row.image_url]

\* app.py:369-394
get_history(c, tie) ==
    /\ prev' = After(c, Other)
    /\ UNCHANGED <<users, scans, session, clock, gw, uploads, extracted>>
    /\ resp' =
        IF session[c] = NoUser
        THEN Response(c, "history", 200, [success |-> TRUE, history |-> <<>>])
        ELSE LET rows == SelectScans(session[c], tie)
             IN  Response(c, "history", 200,
                    [success |-> TRUE,
                     history |-> [k \in 1..Len(rows) |-> HistoryEntry(scans[rows[k]])]])

\* a second passes on the clock of the database
Tick(limit) ==
    /\ clock < limit
    /\ clock' = clock + 1
    /\ UNCHANGED <<users, scans, session, resp, prev, gw, uploads, extracted>>

----------------------------------------------------------------------------
(* State after init_db() on an empty nutrify.db *)

NoResp ==
    [client |-> "none", route |-> "none", status |-> 0, identity |-> NoUser,
     email |-> Null, password |-> Null, body |-> [none |-> TRUE]]

Init ==
    /\ users = <<>>
    /\ scans = <<>>
    /\ session = [c \in Clients |-> NoUser]
    /\ clock = 0
    /\ resp = NoResp
    /\ prev = [c \in Clients |-> Other]
    /\ gw = GwIdle
    /\ uploads = {}
    /\ extracted = {}

(* The requests the model sends *)

NoName == {Null}
Names == {Null, "Ada"}
NoProfile ==
    [full_name |-> Null, age |-> Null, height |-> Null, weight |-> Null, gender |-> Null]
ProfileBodies ==
    {[NoProfile EXCEPT !.age = "30"],
     [full_name |-> "Ada O.", age |-> "31", height |-> "1.7", weight |-> "60",
      gender |-> "female"]}

RE == "ResourceExhausted"
RemoteScripts ==
    {<<"ok">>, <<RE, "ok">>, <<RE, RE, RE, "ok">>, <<RE, RE, RE, RE>>,
     <<"OtherError">>, <<RE, "OtherError">>}

HealthReplies ==
    {<<GoodMealText>>,
     <<SP, BadMealText, NL>>,
     <<Fence, "json", NL, GoodMealText, NL, Fence>>,
     <<Fence, "json", NL, BadMealText>>,
     <<Fence, GoodMealText, Fence>>,
     <<"Sorry,", SP, "no", SP, "JSON">>}

FoodReplies ==
    {<<RiceText>>,
     <<Fence, "json", NL, RiceText, NL, Fence>>,
     <<Fence, RiceText, Fence>>,
     <<"Sorry,", SP, "no", SP, "JSON">>}

HealthBodies ==
    {[has_ingredients |-> FALSE, ingredients |-> NoIngredients, image_url |-> ""],
     [has_ingredients |-> TRUE, ingredients |-> NoIngredients, image_url |-> ""],
     [has_ingredients |-> TRUE, ingredients |-> Rice,
      image_url |-> "/static/uploads/0_meal.JPG"]}

Files ==
    {[present |-> FALSE, filename |-> <<"">>],
     [present |-> TRUE, filename |-> <<"">>],
     [present |-> TRUE, filename |-> <<"meal", "JPG">>],
     [present |-> TRUE, filename |-> <<"meal">>],
     [present |-> TRUE, filename |-> <<"meal", "png", "exe">>]}

TieOrders == {"rowid_asc", "rowid_desc"}

(* The actions, with the inputs drawn *)

Signup == \E c \in Clients, email \in Emails \cup {Null}, password \in Passwords \cup {Null},
             full_name \in Names, salt \in Salts :
             signup(c, email, password, full_name, salt)

Login == \E c \in Clients, email \in Emails \cup {Null}, password \in Passwords \cup {Null} :
            login(c, email, password)

Logout == \E c \in Clients : logout(c)

CheckAuth == \E c \in Clients : check_auth(c)

UpdateProfile == \E c \in Clients, data \in ProfileBodies : update_profile(c, data)

AnalyzeFood == \E c \in Clients, file \in Files, save_ok \in BOOLEAN, upload_ok \in BOOLEAN,
                  kinds \in RemoteScripts, reply \in FoodReplies :
                  analyze_food(c, file, save_ok, upload_ok, kinds, reply)

AnalyzeHealth == \E c \in Clients, data \in HealthBodies, kinds \in RemoteScripts,
                    reply \in HealthReplies, db_ok \in BOOLEAN :
                    analyze_health(c, data, kinds, reply, db_ok, MaxScans)

GetHistory == \E c \in Clients, tie \in TieOrders : get_history(c, tie)

ClockTick == Tick(MaxClock)

\* the whole service
Next ==
    \/ Signup \/ Login \/ Logout \/ CheckAuth \/ UpdateProfile
    \/ AnalyzeFood \/ AnalyzeHealth \/ GetHistory \/ ClockTick
    \/ GwInvoke \/ GwCall \/ GwSleep

Spec == Init /\ [][Next]_vars

\* the credential store and the sessions
SignupAuth == \E c \in Clients, email \in Emails \cup {Null}, password \in {"pw1", Null} :
                 signup(c, email, password, Null, "s1")

NextAuth == SignupAuth \/ Login \/ Logout \/ CheckAuth \/ UpdateProfile

SpecAuth == Init /\ [][NextAuth]_vars

\* the history store, with users who sign up and log out
SignupPlain == \E c \in Clients, email \in Emails :
                  signup(c, email, "pw1", Null, "s1")

ScanReplies ==
    {<<GoodMealText>>,
     <<Fence, "json", NL, GoodMealText, NL, Fence>>,
     <<"Sorry,", SP, "no", SP, "JSON">>}

ScanScripts == {<<"ok">>, <<RE, RE, "ok">>, <<RE, RE, RE, RE>>, <<RE, "OtherError">>}

ScanBodies == {d \in HealthBodies : d.has_ingredients}

AnalyzeHealthScans ==
    \E c \in Clients, data \in ScanBodies, kinds \in ScanScripts,
       reply \in ScanReplies, db_ok \in BOOLEAN :
       analyze_health(c, data, kinds, reply, db_ok, MaxScans)

NextScans == SignupPlain \/ Logout \/ AnalyzeHealthScans \/ GetHistory

SpecScans == Init /\ [][NextScans]_vars

\* the two analysis routes, asked by one client who signs up and logs out
MealJpg == [present |-> TRUE, filename |-> <<"meal", "JPG">>]
\* the body a client builds from what analyze-food returned for MealJpg
RiceBody == [has_ingredients |-> TRUE, ingredients |-> Rice,
             image_url |-> "/static/uploads/0_meal.JPG"]

\* the shapes of a reply around the text of one JSON value
RepliesOf(text) ==
    {<<text>>,
     <<SP, NL, text, NL>>,
     <<Fence, "json", NL, text, NL, Fence>>,
     <<NL, Fence, NL, text, Fence, SP>>,
     <<Fence, "json", NL, text, NL, Fence, NL, "Enjoy!">>,
     <<Fence, "json", NL, text>>,
     <<Fence, text, Fence>>,
     <<Fence, "json">>,
     <<Fence, "json", NL, "oops", NL, Fence>>,
     <<Fence, NL>>,
     <<"Sorry,", SP, "no", SP, "JSON">>,
     <<text, SP, text>>,
     <<>>}

\* every way an analyze-food request can go: the file, the disk, the upload,
\* the remote outcomes, the reply
FoodRequests ==
    {[file |-> f, save_ok |-> TRUE, upload_ok |-> TRUE, kinds |-> <<"ok">>,
      reply |-> <<RiceText>>] : f \in Files}
    \cup {[file |-> MealJpg, save_ok |-> s, upload_ok |-> u, kinds |-> <<"ok">>,
           reply |-> <<RiceText>>] : s \in BOOLEAN, u \in BOOLEAN}
    \cup {[file |-> MealJpg, save_ok |-> TRUE, upload_ok |-> TRUE, kinds |-> k,
           reply |-> <<RiceText>>] : k \in RemoteScripts}
    \cup {[file |-> MealJpg, save_ok |-> TRUE, upload_ok |-> TRUE, kinds |-> <<"ok">>,
           reply |-> r] : r \in FoodReplies}

\* every way an analyze-health request can go: the body, the remote outcomes,
\* the reply, the INSERT
HealthRequests ==
    {[data |-> d, kinds |-> <<"ok">>, reply |-> <<GoodMealText>>, db_ok |-> TRUE] :
        d \in HealthBodies}
    \cup {[data |-> RiceBody, kinds |-> k, reply |-> <<GoodMealText>>, db_ok |-> b] :
           k \in RemoteScripts, b \in BOOLEAN}
    \cup {[data |-> RiceBody, kinds |-> <<"ok">>, reply |-> r, db_ok |-> b] :
           r \in ScanReplies, b \in BOOLEAN}

SignupOne == signup("c1", "ada@x.ng", "pw1", Null, "s1")

LogoutOne == logout("c1")

AnalyzeFoodOne ==
    \E q \in FoodRequests :
        analyze_food("c1", q.file, q.save_ok, q.upload_ok, q.kinds, q.reply)

AnalyzeHealthAny ==
    \E q \in HealthRequests :
        analyze_health("c1", q.data, q.kinds, q.reply, q.db_ok, MaxScans)

NextAnalyze == SignupOne \/ LogoutOne \/ AnalyzeFoodOne \/ AnalyzeHealthAny

SpecAnalyze == Init /\ [][NextAnalyze]_vars

\* the parse step of the two analysis routes: requests of an anonymous client
\* that reach it, over the shapes of a reply
ParsedFood ==
    {[file |-> MealJpg, save_ok |-> TRUE, upload_ok |-> TRUE, kinds |-> k, reply |-> r] :
        k \in {<<"ok">>, <<RE, "ok">>},
        r \in RepliesOf(RiceText) \cup {<<Fence, "json", NL, EmptyText>>}}

ParsedHealth ==
    {[data |-> RiceBody, kinds |-> k, reply |-> r, db_ok |-> TRUE] :
        k \in {<<"ok">>, <<RE, "ok">>},
        r \in RepliesOf(GoodMealText) \cup {<<Fence, "json", NL, BadMealText>>}}

AnalyzeFoodParse ==
    \E q \in ParsedFood :
        analyze_food("c1", q.file, q.save_ok, q.upload_ok, q.kinds, q.reply)

AnalyzeHealthParse ==
    \E q \in ParsedHealth :
        analyze_health("c1", q.data, q.kinds, q.reply, q.db_ok, MaxScans)

NextParse == AnalyzeFoodParse \/ AnalyzeHealthParse

SpecParse == Init /\ [][NextParse]_vars

\* every route of the service, asked by one client
NameOf(email) == IF email = "ada@x.ng" THEN "Ada" ELSE Null

\* the bodies of a signup: both fields, or one of them missing
SignupBodies ==
    {[email |-> e, password |-> "pw1"] : e \in Emails \cup {Null}}
    \cup {[email |-> "ada@x.ng", password |-> Null]}

SignupNamed ==
    \E b \in SignupBodies : signup("c1", b.email, b.password, NameOf(b.email), "s1")

\* the bodies of a login: the password of the signups, another one, or a
\* field missing
LoginBodies ==
    {[email |-> e, password |-> "pw1"] : e \in Emails \cup {Null}}
    \cup {[email |-> "ada@x.ng", password |-> pw] : pw \in {"pw2", Null}}

LoginOne == \E b \in LoginBodies : login("c1", b.email, b.password)

CheckAuthOne == check_auth("c1")

GetHistoryOne == \E tie \in TieOrders : get_history("c1", tie)

UpdateProfileOne == \E data \in ProfileBodies : update_profile("c1", data)

RouteFoodRequests ==
    {q \in FoodRequests : q.save_ok /\ q.upload_ok /\ q.kinds = <<"ok">> /\ q.reply = <<RiceText>>}

AnalyzeFoodRoutes ==
    \E q \in RouteFoodRequests :
        analyze_food("c1", q.file, q.save_ok, q.upload_ok, q.kinds, q.reply)

RouteHealthRequests ==
    {q \in HealthRequests : q.db_ok /\ q.reply = <<GoodMealText>>
                            /\ q.kinds \in {<<"ok">>, <<"OtherError">>}}

AnalyzeHealthRoutes ==
    \E q \in RouteHealthRequests :
        analyze_health("c1", q.data, q.kinds, q.reply, q.db_ok, MaxRouteScans)

GetHistoryRoutes == get_history("c1", "rowid_asc")

NextRoutes ==
    \/ SignupNamed \/ LoginOne \/ LogoutOne \/ CheckAuthOne \/ UpdateProfileOne
    \/ AnalyzeFoodRoutes \/ AnalyzeHealthRoutes \/ GetHistoryRoutes

SpecRoutes == Init /\ [][NextRoutes]_vars

\* one user with a long history
AnalyzeHealthOne ==
    analyze_health("c1", RiceBody, <<"ok">>, <<GoodMealText>>, TRUE, MaxLongScans)

NextHistory == SignupOne \/ AnalyzeHealthOne \/ GetHistoryOne \/ ClockTick

SpecHistory == Init /\ [][NextHistory]_vars

\* a remote call that is made ends, and the thread that sleeps wakes up
RetryFairness == WF_vars(GwCall) /\ WF_vars(GwSleep)

SpecRetry == Init /\ [][NextRetry]_vars /\ RetryFairness

----------------------------------------------------------------------------
(* Properties of the retry wrapper (SpecRetry) *)

CallEvents(g) == SelectSeq(g.log, LAMBDA e : e.ev = "call")
LastEvent(g) == g.log[Len(g.log)]

C2_Shape ==
    LET calls == CallEvents(gw)
    IN  /\ Len(calls) <= max_retries + 1
        /\ \A i \in 2..Len(calls) : calls[i - 1].kind = "ResourceExhausted"
        /\ \A i \in 1..Len(gw.log) :
              (gw.log[i].ev = "call" /\ gw.log[i].kind = "ok") =>
                  /\ i = Len(gw.log)
                  /\ gw.pc = "returned"
                  /\ gw.result = [kind |-> "ok", call |-> gw.log[i].n]
        /\ gw.pc = "returned" =>
              /\ gw.log # <<>>
              /\ LastEvent(gw).ev = "call"
              /\ LastEvent(gw).kind = "ok"

\* C2: one invocation of generate_with_retry makes at most 4 remote calls,
\* makes a further call only after a rate-limit failure of the previous one,
\* returns the response of the first call that succeeds, and always ends
\* (returns or raises) once each remote call ends.
C2_BoundedRetry == [](C2_Shape) /\ ((gw.pc \in {"call", "sleep"}) ~> GwDone(gw))

C2_Witness ==
    /\ gw.pc = "returned"
    /\ Len(CallEvents(gw)) = 3
    /\ gw.result.call = 3

RateLimitFailures(g) ==
    Len(SelectSeq(g.log, LAMBDA e : e.ev = "call" /\ e.kind = "ResourceExhausted"))

\* C3: when all 4 attempts fail with a rate-limit failure, the invocation
\* raises the failure of the 4th attempt, has slept exactly 3 times, and the
\* 4th failure is the last thing that happened (no sleep follows it).
C3_Exhausted ==
    RateLimitFailures(gw) = max_retries + 1 =>
        /\ gw.pc = "raised"
        /\ gw.result = [kind |-> "ResourceExhausted", call |-> max_retries + 1]
        /\ Len(GwSleeps(gw)) = max_retries
        /\ LastEvent(gw).ev = "call"
        /\ LastEvent(gw).n = max_retries + 1

C3_Witness ==
    /\ RateLimitFailures(gw) = 4
    /\ gw.pc = "raised"
    /\ Len(GwSleeps(gw)) = 3

\* C4 as stated: the sleep before the i-th retry lies in the half-open
\* interval [2000 * 2^i, 2000 * 2^i + 1000) milliseconds.
C4_HalfOpenJitter ==
    LET sl == GwSleeps(gw)
    IN  \A i \in 1..Len(sl) :
            /\ 2000 * (2 ^ (i - 1)) <= sl[i].ms
            /\ sl[i].ms < 2000 * (2 ^ (i - 1)) + 1000

\* C4 (amended): the sleep before the i-th retry (i = 0, 1, 2) lies in the
\* closed interval [2000 * 2^i, 2000 * 2^i + 1000] milliseconds: the jitter
\* randint(0, 1000) / 1000 can be a whole second.
C4_ClosedJitter ==
    LET sl == GwSleeps(gw)
    IN  /\ Len(sl) <= 3
        /\ \A i \in 1..Len(sl) :
              /\ sl[i].n = i - 1
              /\ 2000 * (2 ^ (i - 1)) <= sl[i].ms
              /\ sl[i].ms <= 2000 * (2 ^ (i - 1)) + 1000

C4_Witness ==
    LET sl == GwSleeps(gw)
    IN  /\ Len(sl) = 3
        /\ sl[1].ms = 2000
        /\ sl[2].ms = 4500
        /\ sl[3].ms = 9000

\* C5: a failure that is not a rate-limit failure, on whichever attempt, is
\* raised at once: it is the last event of the invocation (no call and no
\* sleep follows), and on the first attempt the invocation ends with no sleep.
C5_OtherFailurePropagates ==
    \A i \in 1..Len(gw.log) :
        (gw.log[i].ev = "call" /\ gw.log[i].kind = "OtherError") =>
            /\ i = Len(gw.log)
            /\ gw.pc = "raised"
            /\ gw.result = [kind |-> "OtherError", call |-> gw.log[i].n]
            /\ (gw.log[i].n = 1 => GwSleeps(gw) = <<>>)

C5_Witness ==
    /\ gw.pc = "raised"
    /\ gw.result = [kind |-> "OtherError", call |-> 2]
    /\ Len(GwSleeps(gw)) = 1

----------------------------------------------------------------------------
(* Properties of the credential store and the sessions (SpecAuth) *)

UniqueEmails(table) ==
    \A i, j \in 1..Len(table) : table[i].email = table[j].email => i = j

StoredEmails == {users[i].email : i \in 1..Len(users)}

\* C6: after any sequence of signups the users table holds at most one user
\* per email, and a signup whose email is already stored gets status 400 and
\* leaves the users table as it was.
C6_UniqueEmail ==
    [][/\ UniqueEmails(users')
       /\ (resp'.route = "signup" /\ resp'.email \in StoredEmails) =>
              (resp'.status = 400 /\ users' = users)]_vars

C6_Witness ==
    /\ resp.route = "signup"
    /\ resp.status = 400
    /\ resp.body.error = "Email already exists"
    /\ Len(users) = 2
    /\ session[resp.client] = NoUser

\* the stored users whose email and password are the ones sent
Matching(email, password) ==
    {i \in 1..Len(users) :
        /\ users[i].email = email
        /\ password \in Passwords
        /\ users[i].password_hash =
               generate_password_hash(password, users[i].password_hash.salt)}

\* C7: a login with the email and the correct password of a stored user is
\* answered with success and puts that user in the session, and the next
\* check-auth of that session, whatever other sessions did in between, is
\* answered authenticated: true with that email.
C7_LoginThenCheckAuth ==
    [][\A c \in Clients :
        /\ (resp'.route = "login" /\ resp'.client = c
            /\ Matching(resp'.email, resp'.password) # {}) =>
               /\ resp'.status = 200
               /\ resp'.body.success
               /\ \E i \in Matching(resp'.email, resp'.password) :
                      session'[c] = users[i].id
        /\ (prev[c].tag = "login_ok" /\ resp'.route = "check-auth" /\ resp'.client = c) =>
               /\ resp'.body.authenticated
               /\ resp'.body.user.email = prev[c].email]_vars

\* a check-auth answered for c1, logged in by a login, after c2 signed up,
\* logged in and updated a profile in between
C7_Witness ==
    /\ resp.route = "check-auth"
    /\ resp.client = "c1"
    /\ resp.body.authenticated
    /\ resp.body.user.email = "ada@x.ng"
    /\ session["c1"] = 1
    /\ session["c2"] = 2
    /\ users[2].age = "30"

\* a login for a stored email with a password that is not the stored one
WrongPassword(email, password) ==
    /\ email \in StoredEmails
    /\ password \in Passwords
    /\ Matching(email, password) = {}

\* C8 as stated: after a login with a wrong password (status 401) the next
\* check-auth of that session is answered authenticated: false, whatever the
\* session held before.
C8_FailedLoginNoSession ==
    [][\A c \in Clients :
        /\ (resp'.route = "login" /\ resp'.client = c
            /\ WrongPassword(resp'.email, resp'.password)) => resp'.status = 401
        /\ (prev[c].tag = "wrong_password" /\ resp'.route = "check-auth" /\ resp'.client = c) =>
               ~resp'.body.authenticated]_vars

\* C8 (amended): a login with a wrong password is answered 401 and leaves the
\* session identity as it was; the next check-auth of that session is
\* answered authenticated: false when the session held no identity before
\* the failed login, and authenticated: true for the user it held otherwise.
C8_FailedLoginKeepsSession ==
    [][\A c \in Clients :
        /\ (resp'.route = "login" /\ resp'.client = c
            /\ WrongPassword(resp'.email, resp'.password)) =>
               /\ resp'.status = 401
               /\ session' = session
               /\ prev'[c].tag = "wrong_password"
        /\ (prev[c].tag = "wrong_password" /\ resp'.route = "check-auth" /\ resp'.client = c) =>
               /\ resp'.identity = prev[c].before
               /\ resp'.body.authenticated = (prev[c].before # NoUser)
               /\ resp'.body.authenticated =>
                      \E i \in 1..Len(users) :
                          /\ users[i].id = prev[c].before
                          /\ resp'.body.user.email = users[i].email]_vars

\* a failed login by a session that is logged in
C8_Witness ==
    /\ resp.route = "login"
    /\ resp.status = 401
    /\ resp.email \in StoredEmails
    /\ resp.password = "pw2"
    /\ prev[resp.client].tag = "wrong_password"
    /\ prev[resp.client].before # NoUser
    /\ session[resp.client] = prev[resp.client].before

\* C19: a signup with an email and a password, the email not stored yet, is
\* answered with success, stores the user and puts the new user in the
\* session whatever the session held before, and the next check-auth of that
\* session is answered authenticated: true with the new email; a signup
\* rejected for a missing field or a stored email is answered 400 and leaves
\* every session identity and the users table as they were.
C19_SignupSetsSession ==
    [][\A c \in Clients :
        /\ (resp'.route = "signup" /\ resp'.client = c
            /\ resp'.email # Null /\ resp'.password # Null
            /\ resp'.email \notin StoredEmails) =>
               /\ resp'.status = 200
               /\ resp'.body.success
               /\ Len(users') = Len(users) + 1
               /\ users'[Len(users')].email = resp'.email
               /\ \A i \in 1..Len(users) : users[i].id # users'[Len(users')].id
               /\ session'[c] = users'[Len(users')].id
        /\ (resp'.route = "signup" /\ resp'.client = c
            /\ (resp'.email = Null \/ resp'.password = Null
                \/ resp'.email \in StoredEmails)) =>
               /\ resp'.status = 400
               /\ session' = session
               /\ users' = users
        /\ (prev[c].tag = "signup_ok" /\ resp'.route = "check-auth" /\ resp'.client = c) =>
               /\ resp'.body.authenticated
               /\ resp'.body.user.email = prev[c].email]_vars

\* a signup by a session that is logged in as user 1: the session now holds
\* the new user 2
C19_Witness ==
    /\ resp.route = "signup"
    /\ resp.status = 200
    /\ resp.identity = 1
    /\ session[resp.client] = 2
    /\ users[2].email = resp.email

----------------------------------------------------------------------------
(* Properties of the history store (SpecScans, SpecHistory) *)

\* C1 as stated: an analyze-health request with no identity in the session
\* that is answered with success leaves the scans table with exactly the
\* rows it had.
C1_AnonymousAddsNoRow ==
    [][(resp'.route = "analyze-health" /\ resp'.status = 200
        /\ resp'.identity = NoUser) =>
          (resp'.body.success /\ resp'.body.analysis = GoodMeal /\ scans' = scans)]_vars

\* the rows of a user, newest first by insertion
RECURSIVE NewestFirst(_)
NewestFirst(rows) ==
    IF rows = {} THEN <<>> ELSE <<Max(rows)>> \o NewestFirst(rows \ {Max(rows)})

\* C9 as stated: for a logged-in user who owns more than 20 scans the history
\* holds exactly 20 scans, the 20 inserted last, from the most recently
\* inserted to the least recently inserted, also when scans carry equal
\* timestamps.
C9_Last20NewestFirst ==
    (resp.route = "history" /\ resp.identity # NoUser
     /\ Cardinality(OwnedBy(resp.identity)) > HistoryLimit) =>
        /\ Len(resp.body.history) = HistoryLimit
        /\ \A k \in 1..HistoryLimit :
              resp.body.history[k].id = NewestFirst(OwnedBy(resp.identity))[k]

\* C10: the history holds only scans whose owner is the user of the asking
\* session: no scan of another user or of nobody is in it, and a session
\* with no identity gets an empty list.
C10_HistoryOnlyOwnScans ==
    resp.route = "history" =>
        /\ resp.status = 200
        /\ resp.identity = NoUser => resp.body.history = <<>>
        /\ \A k \in 1..Len(resp.body.history) :
              /\ resp.body.history[k].id \in 1..Len(scans)
              /\ scans[resp.body.history[k].id].user_id = resp.identity
              /\ resp.identity # NoUser

\* user 2 reads its history while the table also holds a scan of user 1 and
\* a scan of nobody
C10_Witness ==
    /\ resp.route = "history"
    /\ resp.identity = 2
    /\ Len(resp.body.history) = 1
    /\ \E i \in 1..Len(scans) : scans[i].user_id = 1
    /\ \E i \in 1..Len(scans) : scans[i].user_id = NoUser

----------------------------------------------------------------------------
(* Properties of the two analysis routes (SpecAnalyze, SpecParse) *)

\* the ingredient list of an analyze-health body is there and not empty
HasIngredients(q) == q.data.has_ingredients /\ q.data.ingredients.items # <<>>

\* the gateway call of the request returns a response
GatewayReturns(q) == Generate(q.kinds).pc = "returned"

\* the requests whose gateway call and parse succeed and whose INSERT fails
SaveFailures ==
    {q \in HealthRequests :
        /\ ~q.db_ok
        /\ HasIngredients(q) /\ GatewayReturns(q) /\ ParseReply(q.reply).err = ""}

\* C11: when the gateway call and the JSON parse of an analyze-health request
\* succeed and the INSERT of the history record fails, the request is still
\* answered with success and the analysis, and the scans table is unchanged.
C11_SaveFailureDiscarded ==
    [][resp'.route = "analyze-health" =>
        \A q \in SaveFailures :
            analyze_health(resp'.client, q.data, q.kinds, q.reply, q.db_ok, MaxScans) =>
                /\ resp'.status = 200
                /\ resp'.body.success
                /\ resp'.body.analysis = ParseReply(q.reply).value
                /\ scans' = scans]_vars

\* a success answered to a logged-in user while the table holds no row at
\* all: the INSERT of that request failed
C11_Witness ==
    /\ resp.route = "analyze-health"
    /\ resp.status = 200
    /\ resp.body.analysis = GoodMeal
    /\ resp.identity = 1
    /\ scans = <<>>

\* the requests that fail at a stage before the INSERT
StageFailures ==
    {q \in HealthRequests :
        ~HasIngredients(q) \/ ~GatewayReturns(q) \/ ParseReply(q.reply).err # ""}

\* C12: an analyze-health request that fails at a stage (no or an empty
\* ingredient list, a gateway failure after the retries, a gateway failure of
\* another class, a reply that is not valid JSON) is answered with an error
\* and leaves the scans table unchanged; an analyze-food request leaves the
\* scans table unchanged; the scans table changes only in an analyze-health
\* request that is answered with success.
C12_NoRowOnFailure ==
    [][/\ resp'.route = "analyze-health" =>
            \A q \in StageFailures :
                analyze_health(resp'.client, q.data, q.kinds, q.reply, q.db_ok, MaxScans) =>
                    /\ resp'.status \in {400, 500}
                    /\ DOMAIN resp'.body = {"error"}
                    /\ scans' = scans
       /\ resp'.route = "analyze-food" => scans' = scans
       /\ scans' # scans =>
            /\ resp'.route = "analyze-health"
            /\ resp'.status = 200
            /\ resp'.body.success]_vars

\* a reply that is not JSON, answered with an error while the table holds
\* two rows written before
C12_Witness ==
    /\ resp.route = "analyze-health"
    /\ resp.status = 500
    /\ resp.body.error = "JSONDecodeError"
    /\ Len(scans) = 2

\* an analyze-food request answered with success returned these ingredients
\* and this image reference before
Extracted(ingredients, image_url) ==
    \E e \in extracted : e.ingredients = ingredients /\ e.image_url = image_url

\* C13 as stated: an analyze-health request calls the gateway (its ingredient
\* list is not empty) only for ingredients that an analyze-food request
\* answered with success returned before, and a scans row is written only
\* for such ingredients.
C13_AnalysisOnlyAfterExtraction ==
    [][resp'.route = "analyze-health" =>
        /\ \A q \in HealthRequests :
              (/\ HasIngredients(q)
               /\ analyze_health(resp'.client, q.data, q.kinds, q.reply, q.db_ok, MaxScans)) =>
                  Extracted(q.data.ingredients, q.data.image_url)
        /\ scans' # scans =>
              Extracted(json_value(scans'[Len(scans')].ingredients),
                        scans'[Len(scans')].image_url)]_vars

(* The parse step as the claim describes it *)

NonBlank(t) == {i \in 1..Len(t) : t[i] \notin Whitespace}

\* the text without the whitespace around it
Stripped(t) ==
    IF NonBlank(t) = {} THEN <<>> ELSE SubSeq(t, Min(NonBlank(t)), Max(NonBlank(t)))

\* the stripped text starts with a fence
Fenced(t) == Stripped(t) # <<>> /\ Stripped(t)[1] = Fence

\* a fenced text on one line
NoLineBreak(t) == Fenced(t) /\ \A i \in 1..Len(Stripped(t)) : Stripped(t)[i] # NL

\* the stripped text without its first line
AfterFirstLine(t) ==
    LET s == Stripped(t)
        first == CHOOSE i \in 1..Len(s) : s[i] = NL /\ \A j \in 1..(i - 1) : s[j] # NL
    IN  SubSeq(s, first + 1, Len(s))

\* a fenced text with no fence after its first line
Unclosed(t) ==
    /\ Fenced(t) /\ ~NoLineBreak(t)
    /\ \A i \in 1..Len(AfterFirstLine(t)) : AfterFirstLine(t)[i] # Fence

\* a text without its last fence and what follows it
BeforeLastFence(t) ==
    IF \A i \in 1..Len(t) : t[i] # Fence THEN t
    ELSE SubSeq(t, 1, (CHOOSE i \in 1..Len(t) :
                          t[i] = Fence /\ \A j \in (i + 1)..Len(t) : t[j] # Fence) - 1)

LeftToParse(t) == IF Fenced(t) THEN BeforeLastFence(AfterFirstLine(t)) ELSE Stripped(t)

\* the text of exactly one JSON value, with whitespace around it at most
IsJson(t) == Cardinality(NonBlank(t)) = 1 /\ \A i \in NonBlank(t) : t[i] \in JsonTexts
JsonOf(t) == json_value(t[CHOOSE i \in NonBlank(t) : TRUE])

\* the reply parses: what the step leaves is valid JSON
Parses(t) == ~NoLineBreak(t) /\ IsJson(LeftToParse(t))

\* the response to a request that reached the parse step with this reply
ParseOutcome(ok, reply, r, field) ==
    IF ok
    THEN /\ r.status = 200
         /\ r.body.success
         /\ r.body[field] = JsonOf(LeftToParse(reply))
    ELSE /\ r.status = 500
         /\ DOMAIN r.body = {"error"}

\* C18 as stated: the parse step strips the reply, takes the first line and
\* the closing fence off a fenced reply, and parses the rest as JSON; a reply
\* that is not valid JSON after this, and every fenced reply with no line
\* break or with no closing fence, is answered with a 500 error, never with
\* success.
C18_UnclosedFenceFails ==
    [][/\ resp'.route = "analyze-food" =>
            \A q \in ParsedFood :
                analyze_food(resp'.client, q.file, q.save_ok, q.upload_ok, q.kinds, q.reply) =>
                    ParseOutcome(Parses(q.reply) /\ ~Unclosed(q.reply), q.reply, resp',
                                 "ingredients")
       /\ resp'.route = "analyze-health" =>
            \A q \in ParsedHealth :
                analyze_health(resp'.client, q.data, q.kinds, q.reply, q.db_ok, MaxScans) =>
                    ParseOutcome(Parses(q.reply) /\ ~Unclosed(q.reply), q.reply, resp',
                                 "analysis")]_vars

\* C18 (amended): the parse step strips the reply; of a reply that starts
\* with a fence it drops the first line and, when a fence follows, the last
\* fence with what comes after it; it parses what is left as JSON.  A fenced
\* reply with no line break, and a reply of which what is left is not valid
\* JSON, is answered with a 500 error; every other reply, a fenced reply with
\* no closing fence included, is answered with success and the parsed value.
C18_ParseConvention ==
    [][/\ resp'.route = "analyze-food" =>
            \A q \in ParsedFood :
                analyze_food(resp'.client, q.file, q.save_ok, q.upload_ok, q.kinds, q.reply) =>
                    ParseOutcome(Parses(q.reply), q.reply, resp', "ingredients")
       /\ resp'.route = "analyze-health" =>
            \A q \in ParsedHealth :
                analyze_health(resp'.client, q.data, q.kinds, q.reply, q.db_ok, MaxScans) =>
                    ParseOutcome(Parses(q.reply), q.reply, resp', "analysis")]_vars

\* the success answered to the one reply of the model that carries an empty
\* array, a fenced reply with no closing fence
C18_Witness ==
    /\ resp.route = "analyze-food"
    /\ resp.status = 200
    /\ resp.body.ingredients = NoIngredients

----------------------------------------------------------------------------
(* Properties of the service as a whole (SpecRoutes) *)

\* C14: no request of any route changes or removes a row the scans table
\* holds (owner, ingredients, analysis, image reference and timestamp stay as
\* inserted), a request adds at most one row, and only an analyze-health
\* request adds one.
C14_ScansAppendOnly ==
    [][/\ Len(scans') \in {Len(scans), Len(scans) + 1}
       /\ \A i \in 1..Len(scans) : scans'[i] = scans[i]
       /\ scans' # scans => resp'.route = "analyze-health"]_vars

\* a second analysis stored for another owner, the first row still there
C14_Witness ==
    /\ resp.route = "analyze-health"
    /\ resp.status = 200
    /\ Len(scans) = 2
    /\ scans[1].user_id = NoUser
    /\ scans[2].user_id = 1

\* the attributes of a user row that a profile update must not touch
Credentials(u) == [id |-> u.id, email |-> u.email, password_hash |-> u.password_hash]

\* C15: a profile update with no identity in the session is answered 401 and
\* leaves the users table unchanged; one with an identity leaves every row
\* but the row of the session's user unchanged, and of that row the id, the
\* email and the password hash; a request of any other route leaves every
\* stored user row unchanged.
C15_ProfileUpdateFrame ==
    [][/\ (resp'.route = "profile" /\ session[resp'.client] = NoUser) =>
            /\ resp'.status = 401
            /\ users' = users
       /\ (resp'.route = "profile" /\ session[resp'.client] # NoUser) =>
            /\ resp'.status = 200
            /\ Len(users') = Len(users)
            /\ \A i \in 1..Len(users) :
                  /\ Credentials(users'[i]) = Credentials(users[i])
                  /\ users[i].id # session[resp'.client] => users'[i] = users[i]
       /\ resp'.route # "profile" =>
            /\ Len(users') >= Len(users)
            /\ \A i \in 1..Len(users) : users'[i] = users[i]]_vars

\* user 2 updated its profile; the row of user 1 is as its signup left it
C15_Witness ==
    /\ resp.route = "profile"
    /\ resp.status = 200
    /\ resp.identity = 2
    /\ users[2].age = "30"
    /\ users[1].age = Null
    /\ users[1].full_name = "Ada"

\* C16: a logout is answered with success, leaves the session with no
\* identity and changes neither table; a session with no identity gets one
\* only by a login or a signup of its own that is answered with success; and
\* as long as it has none, its check-auth is answered authenticated: false,
\* its history is the empty list, and its profile update is answered 401.
C16_LogoutClearsSession ==
    [][\A c \in Clients :
        /\ (resp'.route = "logout" /\ resp'.client = c) =>
               /\ resp'.status = 200
               /\ session'[c] = NoUser
               /\ users' = users
               /\ scans' = scans
        /\ (session[c] = NoUser /\ session'[c] # NoUser) =>
               /\ resp'.client = c
               /\ resp'.route \in {"login", "signup"}
               /\ resp'.status = 200
        /\ (session[c] = NoUser /\ resp'.client = c) =>
               /\ resp'.route = "check-auth" => ~resp'.body.authenticated
               /\ resp'.route = "history" => resp'.body.history = <<>>
               /\ resp'.route = "profile" => resp'.status = 401]_vars

\* the client, logged out, reads its history: empty, while the table holds
\* a scan it stored as user 1
C16_Witness ==
    /\ resp.route = "history"
    /\ resp.client = "c1"
    /\ resp.identity = NoUser
    /\ resp.body.history = <<>>
    /\ \E i \in 1..Len(scans) : scans[i].user_id = 1

\* an error response: the status and a body with an error string
IsError(r, status) == r.status = status /\ DOMAIN r.body = {"error"}

\* C17 as stated: a signup or a login without email or password, an
\* analyze-food without image and an analyze-health without ingredients are
\* answered 400 with an error string, as are a file of a type not allowed, an
\* empty selection and a signup with a stored email; a login with an unknown
\* email or a wrong password and a profile update with no identity are
\* answered 401.
C17_StatusMapping ==
    [][/\ (resp'.route \in {"signup", "login"}
           /\ (resp'.email = Null \/ resp'.password = Null)) => IsError(resp', 400)
       /\ (resp'.route = "signup" /\ resp'.email \in StoredEmails) => IsError(resp', 400)
       /\ (resp'.route = "login" /\ resp'.email # Null /\ resp'.password # Null
           /\ Matching(resp'.email, resp'.password) = {}) => IsError(resp', 401)
       /\ (resp'.route = "profile" /\ session[resp'.client] = NoUser) => IsError(resp', 401)
       /\ resp'.route = "analyze-food" =>
            \A q \in RouteFoodRequests :
                (/\ ~q.file.present \/ q.file.filename = <<"">> \/ ~allowed_file(q.file.filename)
                 /\ analyze_food(resp'.client, q.file, q.save_ok, q.upload_ok, q.kinds, q.reply)) =>
                    IsError(resp', 400)
       /\ resp'.route = "analyze-health" =>
            \A q \in RouteHealthRequests :
                (/\ ~HasIngredients(q)
                 /\ analyze_health(resp'.client, q.data, q.kinds, q.reply, q.db_ok,
                                   MaxRouteScans)) =>
                    IsError(resp', 400)]_vars

\* C20: a profile update by a session with an identity leaves the row of its
\* user with exactly the five attributes of the request: the value sent for
\* an attribute the body holds, null for an attribute the body lacks.
C20_ProfileOverwritesAll ==
    [][resp'.route = "profile" =>
        \A data \in ProfileBodies :
            (session[resp'.client] # NoUser /\ update_profile(resp'.client, data)) =>
                \E i \in 1..Len(users') :
                    /\ users'[i].id = session[resp'.client]
                    /\ users'[i].full_name = data.full_name
                    /\ users'[i].age = data.age
                    /\ users'[i].height = data.height
                    /\ users'[i].weight = data.weight
                    /\ users'[i].gender = data.gender]_vars

\* the user who signed up with the name Ada sent an update with the age
\* only: the name is null now
C20_Witness ==
    /\ resp.route = "profile"
    /\ resp.status = 200
    /\ \E i \in 1..Len(users) :
          /\ users[i].id = resp.identity
          /\ users[i].email = "ada@x.ng"
          /\ users[i].full_name = Null
          /\ users[i].age = "30"

====
